---- MODULE Spec2Model ----
(***************************************************************************)
(* The supplier page (register / login / orders / approve) and the owner   *)
(* page (new order form / orders table / complete) of the ordering system, *)
(* as event handlers that run to their next await, with the requests and   *)
(* responses they have in flight.  Text is a sequence of characters, so    *)
(* trim, parseInt and parseFloat are computed, not assumed.  The SQL       *)
(* script is modelled as its two statements over the People table.         *)
(***************************************************************************)
EXTENDS Integers, Sequences, FiniteSets, TLC

\* ---------------------------------------------------------------- bounds
MaxOrders == 1     \* order reference ids the backend can hand out
MaxActions == 2    \* submits and clicks that start a handler, after the page has loaded
MaxEntries == 2    \* product rows the registration form can hold
MaxEdits == 4      \* changes the user makes to form fields
MaxInv == 2        \* handlers that can be suspended at once
MaxPersons == 4    \* rows of the People table

VARIABLES
    orders,             \* backend: order id -> [status, supplier_name]
    requests,           \* requests sent and not yet answered
    responses,          \* responses produced and not yet delivered
    inv,                \* slot -> the handler invocation suspended there
    last,               \* the handler invocation that returned in the latest step, if one did
    started,            \* handlers started by the user so far
    edits,              \* changes the user has made to form fields so far
    loaded,             \* owner page: DOMContentLoaded has fired
    suppliersData,      \* owner page: let suppliersData
    supplierSelect,     \* owner page: <select id=supplierSelect>: options and value
    productsForOrder,   \* owner page: rows of <div id=productsForOrder>
    allOrdersList,      \* owner page: content of <div id=allOrdersList>
    productsList,       \* supplier page: the .product-entry rows of <div id=productsList>
    display,            \* supplier page: style.display of the three sections
    loggedInSupplierName, \* supplier page: text of <span id=loggedInSupplierName>
    ordersList,         \* supplier page: content of <ul id=ordersList>
    People,             \* SQL: the People table, Person_Id -> row
    Family_Tree,        \* SQL: the rows of the Family_Tree table, in insertion order
    statement           \* SQL: the statement of the script that runs next

ownerForm == <<suppliersData, supplierSelect, productsForOrder>>

ownerPage == <<loaded, suppliersData, supplierSelect, productsForOrder, allOrdersList>>

supplierView == <<display, loggedInSupplierName, ordersList>>

supplierPage == <<productsList, display, loggedInSupplierName, ordersList>>

database == <<People, Family_Tree, statement>>

pages == <<orders, requests, responses, inv, last, started, edits, ownerPage, supplierPage>>

vars == <<pages, database>>

\* ------------------------------------------------------------------ text
Digits == <<"0", "1", "2", "3", "4", "5", "6", "7", "8", "9">>

IsDigit(c) == \E d \in 1..10 : Digits[d] = c

DigitVal(c) == (CHOOSE d \in 1..10 : Digits[d] = c) - 1

\* a number as JavaScript holds it: NaN, or a value
NaN == [nan |-> TRUE, v |-> 0]

Num(n) == [nan |-> FALSE, v |-> n]

\* the longest prefix of s made of digits
RECURSIVE DigitPrefix(_)
DigitPrefix(s) ==
    IF s = <<>> \/ ~IsDigit(Head(s)) THEN <<>>
    ELSE <<Head(s)>> \o DigitPrefix(Tail(s))

RECURSIVE DigitsValue(_, _)
DigitsValue(s, acc) ==
    IF s = <<>> THEN acc ELSE DigitsValue(Tail(s), 10 * acc + DigitVal(Head(s)))

\* JavaScript parseInt(text), radix 10: an optional sign, then the digits up to the
\* first character that is not one; NaN when there is no digit.
ParseInt(s) ==
    LET neg  == s # <<>> /\ Head(s) = "-"
        rest == IF s # <<>> /\ Head(s) \in {"-", "+"} THEN Tail(s) ELSE s
        ds   == DigitPrefix(rest)
    IN  IF ds = <<>> THEN NaN
        ELSE IF neg THEN Num(0 - DigitsValue(ds, 0)) ELSE Num(DigitsValue(ds, 0))

\* JavaScript parseFloat(text), in hundredths (the price fields step by 0.01, further
\* decimals are dropped): an optional sign, digits, an optional point and digits; NaN
\* when there is no digit.
ParseFloat(s) ==
    LET neg   == s # <<>> /\ Head(s) = "-"
        rest  == IF s # <<>> /\ Head(s) \in {"-", "+"} THEN Tail(s) ELSE s
        ints  == DigitPrefix(rest)
        after == SubSeq(rest, Len(ints) + 1, Len(rest))
        fracs == IF after # <<>> /\ Head(after) = "." THEN DigitPrefix(Tail(after)) ELSE <<>>
        two   == SubSeq(fracs \o <<"0", "0">>, 1, 2)
        abs   == 100 * DigitsValue(ints, 0) + DigitsValue(two, 0)
    IN  IF ints = <<>> /\ fracs = <<>> THEN NaN
        ELSE IF neg THEN Num(0 - abs) ELSE Num(abs)

\* x > n and x >= n as JavaScript compares: false when x is NaN
Gt(x, n) == ~x.nan /\ x.v > n

Ge(x, n) == ~x.nan /\ x.v >= n

\* ---------------------------------------------------------------- backend
OrderIds == 1..MaxOrders

Statuses == {"Pending", "In Process", "Completed"}

NoOrder == [status |-> "None", supplier_name |-> <<>>]

\* the suppliers the backend knows, with their products (price as the text of
\* data-price)
Catalogue ==
    << [company_name |-> <<"a">>,
        products |-> << [product_name |-> <<"x">>, price |-> <<"2">>],
                        [product_name |-> <<"y">>, price |-> <<"3">>] >>],
       [company_name |-> <<"b">>,
        products |-> << [product_name |-> <<"z">>, price |-> <<"5">>] >>],
       [company_name |-> <<>>, products |-> <<>>] >>

OrderRecord(os, n) ==
    [order_reference_id |-> n, supplier_name |-> os[n].supplier_name,
     status |-> os[n].status]

RECURSIVE OrdersFrom(_, _)
OrdersFrom(os, n) ==
    IF n > MaxOrders THEN <<>>
    ELSE (IF os[n].status # "None" THEN <<OrderRecord(os, n)>> ELSE <<>>)
         \o OrdersFrom(os, n + 1)

\* GET /orders/ : every order, by reference id
AllOrders(os) == OrdersFrom(os, 1)

\* GET /orders/supplier/{name} : the orders of one supplier
OrdersOfSupplier(os, name) ==
    LET Mine(o) == o.supplier_name = name IN SelectSeq(AllOrders(os), Mine)

\* ------------------------------------------------------- handler invocations
InvIds == 1..MaxInv

\* a slot no handler has run in
Idle ==
    [handler |-> "none", pc |-> "idle", seq |-> 0, log |-> <<>>, alert |-> "none", ref |-> 0,
     name |-> <<>>, read |-> <<>>]

\* a slot is free when no handler is suspended in it
Free(i) == inv[i].pc = "idle"

\* the slot a new handler invocation takes
NewSlot(i) == Free(i) /\ \A j \in 1..(i - 1) : ~Free(j)

\* the user starts a handler in slot i
UserAction(i) ==
    /\ NewSlot(i)
    /\ started < MaxActions
    /\ started' = started + 1
    /\ UNCHANGED edits

\* the user changes a form field
UserEdit ==
    /\ edits < MaxEdits
    /\ edits' = edits + 1
    /\ UNCHANGED started

\* a handler entered as the user's next action, with its argument (an order id) or
\* the company name it keeps; read is what it took from the form fields
Started(h, ref, name) ==
    [handler |-> h, pc |-> "run", seq |-> started + 1, log |-> <<>>, alert |-> "none",
     ref |-> ref, name |-> name, read |-> <<>>]

\* the invocation after fetch(kind): the request is in its log, unanswered
Sent(rec, kind, pc) ==
    [rec EXCEPT !.pc = pc, !.log = Append(@, [kind |-> kind, outcome |-> "pending"])]

\* the invocation after the response to its last request arrived
Answered(rec, status) ==
    [rec EXCEPT !.log = [@ EXCEPT ![Len(@)].outcome = status]]

Returned(rec, alert) == [rec EXCEPT !.pc = "done", !.alert = alert]

\* the handler in slot i returns: the slot is free again
Return(i, rec) ==
    /\ inv' = [inv EXCEPT ![i] = Idle]
    /\ last' = rec

Request(i, kind, ref, name, items) ==
    [inv |-> i, kind |-> kind, ref |-> ref, name |-> name, phone |-> <<>>, items |-> items]

Response(req, status, os, ss) ==
    [inv |-> req.inv, kind |-> req.kind, status |-> status, orders |-> os, suppliers |-> ss]

\* ------------------------------------------------------------- owner page
\* fetchSuppliers, on a response: suppliersData and the options of the select
SuppliersAfter(resp) == IF resp.status = "ok" THEN resp.suppliers ELSE suppliersData

OptionsAfter(resp) ==
    IF resp.status = "ok"
    THEN LET Named(s) == s.company_name # <<>>
             named == SelectSeq(resp.suppliers, Named)
         IN  [options |-> [k \in 1..Len(named) |-> named[k].company_name], value |-> <<>>]
    ELSE [options |-> <<>>, value |-> <<>>]

\* displayProductsForOrder: one unchecked row with a disabled, empty quantity per
\* product of the selected supplier; no row when none is selected or found
DisplayProductsForOrder(name, data) ==
    LET Sel(s) == s.company_name = name
        found  == SelectSeq(data, Sel)
    IN  IF name = <<>> \/ found = <<>> THEN <<>>
        ELSE [k \in 1..Len(found[1].products) |->
                [product_name |-> found[1].products[k].product_name,
                 price |-> found[1].products[k].price,
                 checked |-> FALSE, qty |-> <<>>]]

\* the change listener of a row's checkbox
ToggleRow(row) ==
    IF row.checked THEN [row EXCEPT !.checked = FALSE, !.qty = <<>>]
    ELSE [row EXCEPT !.checked = TRUE, !.qty = <<"1">>]

\* what a user can leave in an enabled quantity field
QtyInputs == { <<>>, <<"0">>, <<"2">>, <<"-", "1">>, <<"0", ".", "5">> }

\* a variant that keeps the checked rows whose quantity parses to >= 0
RECURSIVE CollectItemsNonNegative(_)
CollectItemsNonNegative(rows) ==
    IF rows = <<>> THEN <<>>
    ELSE (IF Head(rows).checked /\ Ge(ParseInt(Head(rows).qty), 0)
          THEN << [product_name |-> Head(rows).product_name,
                   quantity |-> ParseInt(Head(rows).qty).v,
                   price_per_item |-> ParseFloat(Head(rows).price)] >>
          ELSE <<>>) \o CollectItemsNonNegative(Tail(rows))

\* submitNewOrder: the items of the checked rows whose quantity parses to > 0
RECURSIVE CollectItems(_)
CollectItems(rows) ==
    IF rows = <<>> THEN <<>>
    ELSE (IF Head(rows).checked /\ Gt(ParseInt(Head(rows).qty), 0)
          THEN << [product_name |-> Head(rows).product_name,
                   quantity |-> ParseInt(Head(rows).qty).v,
                   price_per_item |-> ParseFloat(Head(rows).price)] >>
          ELSE <<>>) \o CollectItems(Tail(rows))

CheckedRows(rows) == LET Chk(r) == r.checked IN SelectSeq(rows, Chk)

\* submitNewOrder up to its fetch: the alert it returns with, or "none"
SubmitAlert(sel, rows) ==
    IF sel.value = <<>> THEN "Please select a supplier."
    ELSE IF CheckedRows(rows) = <<>> THEN "Please select at least one product to order."
    ELSE IF CollectItems(rows) = <<>>
         THEN "Please ensure all selected products have a quantity greater than 0."
    ELSE "none"

\* the orderPayload of submitNewOrder, as the request that carries it
OrderPayload(i, sel, rows) ==
    Request(i, "POST /orders/", 0, sel.value, CollectItems(rows))

\* a variant in which the button is offered for every order that is not yet completed
OwnerRowUnlessCompleted(order) ==
    [order_reference_id |-> order.order_reference_id,
     status |-> order.status,
     button |-> IF order.status # "Completed" THEN <<order.order_reference_id>> ELSE <<>>]

\* loadAllOrders: the row of one order; the button carries the id it completes
OwnerRow(order) ==
    [order_reference_id |-> order.order_reference_id,
     status |-> order.status,
     button |-> IF order.status = "In Process" THEN <<order.order_reference_id>> ELSE <<>>]

Loading == [kind |-> "loading", rows |-> <<>>]

\* a variant in which an answer is dropped when the user has started something since its
\* request was sent
AllOrdersListAfterLatestOnly(resp) ==
    IF inv[resp.inv].seq < started THEN allOrdersList
    ELSE IF resp.status # "ok" THEN [kind |-> "error", rows |-> <<>>]
    ELSE IF resp.orders = <<>> THEN [kind |-> "empty", rows |-> <<>>]
    ELSE [kind |-> "table",
          rows |-> [k \in 1..Len(resp.orders) |-> OwnerRow(resp.orders[k])]]

\* loadAllOrders, on a response: what allOrdersListDiv shows
AllOrdersListAfter(resp) ==
    IF resp.status # "ok" THEN [kind |-> "error", rows |-> <<>>]
    ELSE IF resp.orders = <<>> THEN [kind |-> "empty", rows |-> <<>>]
    ELSE [kind |-> "table",
          rows |-> [k \in 1..Len(resp.orders) |-> OwnerRow(resp.orders[k])]]

\* ---------------------------------------------------- owner page: handlers
\* document DOMContentLoaded: fetchSuppliers() and loadAllOrders(), each up to its
\* fetch
DOMContentLoaded(i, j) ==
    /\ ~loaded
    /\ NewSlot(i)
    /\ j > i /\ Free(j) /\ \A m \in (i + 1)..(j - 1) : ~Free(m)
    /\ loaded' = TRUE
    /\ inv' = [inv EXCEPT
                 ![i] = Sent([Started("fetchSuppliers", 0, <<>>) EXCEPT !.seq = 0],
                             "GET /suppliers", "await"),
                 ![j] = Sent([Started("loadAllOrders", 0, <<>>) EXCEPT !.seq = 0],
                             "GET /orders/", "await")]
    /\ requests' = requests \cup { Request(i, "GET /suppliers", 0, <<>>, <<>>),
                                   Request(j, "GET /orders/", 0, <<>>, <<>>) }
    /\ allOrdersList' = Loading
    /\ last' = Idle
    /\ UNCHANGED <<orders, responses, started, edits, ownerForm, supplierPage>>
    /\ UNCHANGED database

\* refreshOrdersBtn click: loadAllOrders up to its fetch
RefreshClick(i) ==
    /\ loaded /\ UserAction(i)
    /\ inv' = [inv EXCEPT ![i] = Sent(Started("loadAllOrders", 0, <<>>), "GET /orders/", "await")]
    /\ requests' = requests \cup { Request(i, "GET /orders/", 0, <<>>, <<>>) }
    /\ allOrdersList' = Loading
    /\ last' = Idle
    /\ UNCHANGED <<orders, responses, loaded, ownerForm, supplierPage>>
    /\ UNCHANGED database

\* supplierSelect change: displayProductsForOrder
SupplierChange(v) ==
    /\ UserEdit
    /\ loaded
    /\ v # supplierSelect.value
    /\ v = <<>> \/ \E k \in 1..Len(supplierSelect.options) : supplierSelect.options[k] = v
    /\ supplierSelect' = [supplierSelect EXCEPT !.value = v]
    /\ productsForOrder' = DisplayProductsForOrder(v, suppliersData)
    /\ last' = Idle
    /\ UNCHANGED <<orders, requests, responses, inv, loaded, suppliersData, allOrdersList, supplierPage>>
    /\ UNCHANGED database

\* a product checkbox change
CheckboxChange(k) ==
    /\ UserEdit
    /\ k \in 1..Len(productsForOrder)
    /\ productsForOrder' = [productsForOrder EXCEPT ![k] = ToggleRow(@)]
    /\ last' = Idle
    /\ UNCHANGED <<orders, requests, responses, inv, loaded, suppliersData, supplierSelect,
                   allOrdersList, supplierPage>>
    /\ UNCHANGED database

\* the user edits a quantity field, which is enabled while its box is checked
QuantityInput(k, q) ==
    /\ UserEdit
    /\ k \in 1..Len(productsForOrder)
    /\ productsForOrder[k].checked
    /\ q # productsForOrder[k].qty
    /\ productsForOrder' = [productsForOrder EXCEPT ![k].qty = q]
    /\ last' = Idle
    /\ UNCHANGED <<orders, requests, responses, inv, loaded, suppliersData, supplierSelect,
                   allOrdersList, supplierPage>>
    /\ UNCHANGED database

\* newOrderForm submit: submitNewOrder up to its return or its fetch
SubmitNewOrder(i) ==
    /\ loaded /\ UserAction(i)
    /\ LET alert == SubmitAlert(supplierSelect, productsForOrder)
           me    == Started("submitNewOrder", 0, <<>>)
       IN  IF alert # "none"
           THEN /\ Return(i, Returned(me, alert))
                /\ UNCHANGED requests
           ELSE /\ inv' = [inv EXCEPT ![i] = Sent(me, "POST /orders/", "await")]
                /\ requests' = requests \cup {OrderPayload(i, supplierSelect, productsForOrder)}
                /\ last' = Idle
    /\ UNCHANGED <<orders, responses, loaded, ownerForm, allOrdersList, supplierPage>>
    /\ UNCHANGED database

\* a variant in which the reload is asked for together with the PUT, not after its answer
CompleteFetchAndReload(i, id) ==
    { Request(i, "PUT complete", id, <<>>, <<>>), Request(i, "GET /orders/", 0, <<>>, <<>>) }

\* the requests markOrderComplete(id) has sent when it first suspends: the reload
\* is only asked for once the PUT has been answered
CompleteFetch(i, id) == { Request(i, "PUT complete", id, <<>>, <<>>) }

\* a variant in which the answer to the confirmation dialog is not looked at
MarkOrderCompleteClickUnasked(i, k, confirmed) ==
    /\ UserAction(i)
    /\ k \in 1..Len(allOrdersList.rows)
    /\ allOrdersList.rows[k].button # <<>>
    /\ LET id == allOrdersList.rows[k].button[1]
           me == [Started("markOrderComplete", id, <<>>) EXCEPT !.read = <<confirmed>>]
       IN  /\ inv' = [inv EXCEPT ![i] = Sent(me, "PUT complete", "await")]
           /\ requests' = requests \cup CompleteFetch(i, id)
           /\ last' = Idle
    /\ UNCHANGED <<orders, responses, loaded, ownerForm, allOrdersList, supplierPage>>
    /\ UNCHANGED database

\* a click on the button of row k: markOrderComplete up to its return or its fetch
MarkOrderCompleteClick(i, k, confirmed) ==
    /\ UserAction(i)
    /\ k \in 1..Len(allOrdersList.rows)
    /\ allOrdersList.rows[k].button # <<>>
    /\ LET id == allOrdersList.rows[k].button[1]
           me == [Started("markOrderComplete", id, <<>>) EXCEPT !.read = <<confirmed>>]
       IN  IF ~confirmed
           THEN /\ Return(i, Returned(me, "none"))
                /\ UNCHANGED requests
           ELSE /\ inv' = [inv EXCEPT ![i] = Sent(me, "PUT complete", "await")]
                /\ requests' = requests \cup CompleteFetch(i, id)
                /\ last' = Idle
    /\ UNCHANGED <<orders, responses, loaded, ownerForm, allOrdersList, supplierPage>>
    /\ UNCHANGED database

\* fetchSuppliers resumes with its response
FetchSuppliersResume(resp) ==
    /\ inv[resp.inv].handler = "fetchSuppliers"
    /\ suppliersData' = SuppliersAfter(resp)
    /\ supplierSelect' = OptionsAfter(resp)
    /\ Return(resp.inv, Returned(Answered(inv[resp.inv], resp.status), "none"))
    /\ responses' = responses \ {resp}
    /\ UNCHANGED <<orders, requests, started, edits, loaded, productsForOrder, allOrdersList, supplierPage>>
    /\ UNCHANGED database

\* a variant in which loadAllOrders asks again when its request failed
LoadAllOrdersResumeRetrying(resp) ==
    /\ resp.kind = "GET /orders/"
    /\ responses' = responses \ {resp}
    /\ IF resp.status = "ok"
       THEN /\ allOrdersList' = AllOrdersListAfter(resp)
            /\ Return(resp.inv, [Answered(inv[resp.inv], resp.status) EXCEPT !.pc = "done"])
            /\ UNCHANGED requests
       ELSE /\ inv' = [inv EXCEPT ![resp.inv] =
                         Sent(Answered(@, resp.status), "GET /orders/", "await")]
            /\ requests' = requests \cup {Request(resp.inv, "GET /orders/", 0, <<>>, <<>>)}
            /\ last' = Idle
            /\ UNCHANGED allOrdersList
    /\ UNCHANGED <<orders, started, edits, loaded, ownerForm, supplierPage>>
    /\ UNCHANGED database

\* loadAllOrders resumes with its response, whichever handler called it
LoadAllOrdersResume(resp) ==
    /\ resp.kind = "GET /orders/"
    /\ allOrdersList' = AllOrdersListAfter(resp)
    /\ Return(resp.inv, [Answered(inv[resp.inv], resp.status) EXCEPT !.pc = "done"])
    /\ responses' = responses \ {resp}
    /\ UNCHANGED <<orders, requests, started, edits, loaded, ownerForm, supplierPage>>
    /\ UNCHANGED database

\* a variant in which a created order is announced and the form reset, but the list
\* of orders is not loaded again
SubmitNewOrderResumeWithoutReload(resp) ==
    /\ resp.kind = "POST /orders/"
    /\ responses' = responses \ {resp}
    /\ LET me == Answered(inv[resp.inv], resp.status)
       IN  IF resp.status = "ok"
           THEN /\ supplierSelect' = [supplierSelect EXCEPT !.value = <<>>]
                /\ productsForOrder' = <<>>
                /\ Return(resp.inv, Returned(me, "Order created successfully!"))
                /\ UNCHANGED <<requests, suppliersData, allOrdersList>>
           ELSE /\ Return(resp.inv,
                             Returned(me, IF resp.status = "notok"
                                          THEN "Error creating order"
                                          ELSE "An unexpected error occurred while submitting the order."))
                /\ UNCHANGED <<requests, ownerForm, allOrdersList>>
    /\ UNCHANGED <<orders, started, edits, loaded, supplierPage>>
    /\ UNCHANGED database

\* submitNewOrder resumes with the response to its POST
SubmitNewOrderResume(resp) ==
    /\ resp.kind = "POST /orders/"
    /\ responses' = responses \ {resp}
    /\ LET me == Answered(inv[resp.inv], resp.status)
       IN  IF resp.status = "ok"
           THEN \* alert, newOrderForm.reset(), the products area cleared, loadAllOrders()
                /\ supplierSelect' = [supplierSelect EXCEPT !.value = <<>>]
                /\ productsForOrder' = <<>>
                /\ allOrdersList' = Loading
                /\ inv' = [inv EXCEPT ![resp.inv] =
                             Sent([me EXCEPT !.alert = "Order created successfully!"],
                                  "GET /orders/", "await")]
                /\ requests' = requests \cup {Request(resp.inv, "GET /orders/", 0, <<>>, <<>>)}
                /\ UNCHANGED suppliersData
                /\ last' = Idle
           ELSE /\ Return(resp.inv,
                             Returned(me, IF resp.status = "notok"
                                          THEN "Error creating order"
                                          ELSE "An unexpected error occurred while submitting the order."))
                /\ UNCHANGED <<requests, ownerForm, allOrdersList>>
    /\ UNCHANGED <<orders, started, edits, loaded, supplierPage>>
    /\ UNCHANGED database

\* markOrderComplete resumes with the response to its PUT
MarkOrderCompleteResume(resp) ==
    /\ resp.kind = "PUT complete"
    /\ responses' = responses \ {resp}
    /\ LET me == Answered(inv[resp.inv], resp.status)
       IN  IF resp.status = "ok"
           THEN /\ allOrdersList' = Loading
                /\ inv' = [inv EXCEPT ![resp.inv] =
                             Sent([me EXCEPT !.alert = "Order marked as completed!"],
                                  "GET /orders/", "await")]
                /\ requests' = requests \cup {Request(resp.inv, "GET /orders/", 0, <<>>, <<>>)}
                /\ last' = Idle
           ELSE /\ Return(resp.inv,
                             Returned(me, IF resp.status = "notok"
                                          THEN "Error marking order as complete"
                                          ELSE "An unexpected error occurred while marking the order as complete."))
                /\ UNCHANGED <<requests, allOrdersList>>
    /\ UNCHANGED <<orders, started, edits, loaded, ownerForm, supplierPage>>
    /\ UNCHANGED database

\* ---------------------------------------------------------- supplier page
\* String.prototype.trim, for the blank a user can type
RECURSIVE TrimStart(_)
TrimStart(s) == IF s # <<>> /\ Head(s) = " " THEN TrimStart(Tail(s)) ELSE s

RECURSIVE TrimEnd(_)
TrimEnd(s) ==
    IF s # <<>> /\ s[Len(s)] = " " THEN TrimEnd(SubSeq(s, 1, Len(s) - 1)) ELSE s

Trim(s) == TrimEnd(TrimStart(s))

\* encodeURIComponent, for letters, digits and the blank
RECURSIVE EncodeURIComponent(_)
EncodeURIComponent(s) ==
    IF s = <<>> THEN <<>>
    ELSE (IF Head(s) = " " THEN <<"%", "2", "0">> ELSE <<Head(s)>>)
         \o EncodeURIComponent(Tail(s))

\* the backend's reading of a path segment
RECURSIVE DecodeURIComponent(_)
DecodeURIComponent(s) ==
    IF s = <<>> THEN <<>>
    ELSE IF Len(s) >= 3 /\ SubSeq(s, 1, 3) = <<"%", "2", "0">>
         THEN <<" ">> \o DecodeURIComponent(SubSeq(s, 4, Len(s)))
    ELSE <<Head(s)>> \o DecodeURIComponent(Tail(s))

\* a .product-entry row; added is TRUE for the rows addProductEntry made, whose
\* Remove button this script listens to
EmptyEntry(added) == [name |-> <<>>, price |-> <<>>, minQty |-> <<>>, added |-> added]

\* addProductBtn click: addProductEntry
AddProductEntry ==
    /\ UserEdit
    /\ display.register # "none"
    /\ Len(productsList) < MaxEntries
    /\ productsList' = Append(productsList, EmptyEntry(TRUE))
    /\ last' = Idle
    /\ UNCHANGED <<orders, requests, responses, inv, ownerPage, supplierView>>
    /\ UNCHANGED database

\* the click listener of a row's Remove button
RemoveProductEntry(k) ==
    /\ UserEdit
    /\ display.register # "none"
    /\ k \in 1..Len(productsList)
    /\ productsList[k].added
    /\ productsList' = SubSeq(productsList, 1, k - 1) \o SubSeq(productsList, k + 1, Len(productsList))
    /\ last' = Idle
    /\ UNCHANGED <<orders, requests, responses, inv, ownerPage, supplierView>>
    /\ UNCHANGED database

\* the user fills in row k
ProductInput(k, name, price, minQty) ==
    /\ UserEdit
    /\ display.register # "none"
    /\ k \in 1..Len(productsList)
    /\ productsList' = [productsList EXCEPT ![k].name = name, ![k].price = price,
                                            ![k].minQty = minQty]
    /\ productsList' # productsList
    /\ last' = Idle
    /\ UNCHANGED <<orders, requests, responses, inv, ownerPage, supplierView>>
    /\ UNCHANGED database

\* the register handler's test of one row
ValidProduct(e) ==
    /\ Trim(e.name) # <<>>
    /\ Ge(ParseFloat(e.price), 0)
    /\ Ge(ParseInt(e.minQty), 1)

\* the products array the register handler collects
RECURSIVE CollectProducts(_)
CollectProducts(entries) ==
    IF entries = <<>> THEN <<>>
    ELSE (IF ValidProduct(Head(entries))
          THEN << [product_name |-> Trim(Head(entries).name),
                   price_per_item |-> ParseFloat(Head(entries).price),
                   minimum_quantity |-> ParseInt(Head(entries).minQty).v] >>
          ELSE <<>>) \o CollectProducts(Tail(entries))

\* a variant in which an invalid row is skipped without clearing the flag
FormIsValidSkipping(entries) == TRUE

\* formIsValid after the loop over the rows
FormIsValid(entries) == \A k \in 1..Len(entries) : ValidProduct(entries[k])

\* the register handler up to its fetch: the alert it returns with, or "none"
RegisterAlert(entries) ==
    IF ~FormIsValid(entries)
    THEN "Please ensure all product fields (Name, Price >= 0, Min Qty >= 1) are correctly filled."
    ELSE IF CollectProducts(entries) = <<>> THEN "Please add at least one valid product."
    ELSE "none"

RegisterPayload(i, company, phone, entries) ==
    [Request(i, "POST register", 0, company, CollectProducts(entries)) EXCEPT !.phone = phone]

\* registerForm submit, up to its return or its fetch
RegisterSubmit(i, company, phone) ==
    /\ display.register # "none"
    /\ UserAction(i)
    /\ LET alert == RegisterAlert(productsList)
           me    == [Started("register", 0, company) EXCEPT !.read = <<company, phone>>]
       IN  IF alert # "none"
           THEN /\ Return(i, Returned(me, alert))
                /\ UNCHANGED requests
           ELSE /\ inv' = [inv EXCEPT ![i] = Sent(me, "POST register", "await")]
                /\ requests' = requests \cup {RegisterPayload(i, company, phone, productsList)}
                /\ last' = Idle
    /\ UNCHANGED <<orders, responses, ownerPage, supplierPage>>
    /\ UNCHANGED database

\* registerForm.reset() and the removal of every row but the first
ProductsListAfterReset(entries) ==
    IF entries = <<>> THEN <<>> ELSE <<EmptyEntry(entries[1].added)>>

\* the register handler resumes with its response
RegisterResume(resp) ==
    /\ resp.kind = "POST register"
    /\ responses' = responses \ {resp}
    /\ LET me == Answered(inv[resp.inv], resp.status)
       IN  /\ Return(resp.inv,
                     Returned(me, CASE resp.status = "ok" -> "Supplier registered successfully!"
                                    [] resp.status = "notok" -> "Registration Error"
                                    [] OTHER -> "An unexpected error occurred during registration."))
           /\ productsList' = IF resp.status = "ok" THEN ProductsListAfterReset(productsList)
                              ELSE productsList
    /\ UNCHANGED <<orders, requests, started, edits, ownerPage, supplierView>>
    /\ UNCHANGED database

\* a variant in which the button is offered for every order that is not yet completed
SupplierRowUnlessCompleted(order) ==
    [order_reference_id |-> order.order_reference_id,
     status |-> order.status,
     button |-> IF order.status # "Completed" THEN <<order.order_reference_id>> ELSE <<>>]

\* loadOrders: the item of one order; the button carries the id it approves
SupplierRow(order) ==
    [order_reference_id |-> order.order_reference_id,
     status |-> order.status,
     button |-> IF order.status = "Pending" THEN <<order.order_reference_id>> ELSE <<>>]

\* loadOrders, on a response: what ordersList shows
OrdersListAfter(resp) ==
    IF resp.status # "ok" THEN [kind |-> "error", rows |-> <<>>]
    ELSE IF resp.orders = <<>> THEN [kind |-> "empty", rows |-> <<>>]
    ELSE [kind |-> "list",
          rows |-> [k \in 1..Len(resp.orders) |-> SupplierRow(resp.orders[k])]]

\* the request of loadOrders(companyName)
LoadOrdersRequest(i, companyName) ==
    Request(i, "GET /orders/supplier", 0, EncodeURIComponent(companyName), <<>>)

\* a variant that only looks at the company name
LoginAlertCompanyOnly(companyName, phone) ==
    IF companyName = <<>>
    THEN "Please enter both Company Name and Phone Number."
    ELSE "none"

\* the login handler up to its fetch: the alert it returns with, or "none"
LoginAlert(companyName, phone) ==
    IF companyName = <<>> \/ phone = <<>>
    THEN "Please enter both Company Name and Phone Number."
    ELSE "none"

\* loginForm submit, up to its return or its fetch
LoginSubmit(i, company, phone) ==
    /\ display.login # "none"
    /\ UserAction(i)
    /\ LET companyName == Trim(company)
           alert == LoginAlert(companyName, Trim(phone))
           me    == [Started("login", 0, companyName) EXCEPT !.read = <<company, phone>>]
       IN  IF alert # "none"
           THEN /\ Return(i, Returned(me, alert))
                /\ UNCHANGED requests
           ELSE /\ inv' = [inv EXCEPT ![i] = Sent(me, "POST login", "await")]
                /\ requests' = requests \cup
                      {[Request(i, "POST login", 0, companyName, <<>>) EXCEPT !.phone = Trim(phone)]}
                /\ last' = Idle
    /\ UNCHANGED <<orders, responses, ownerPage, supplierPage>>
    /\ UNCHANGED database

\* a variant that leaves the login section as it is
DisplayAfterShowOrdersViewKeepingLogin == [display EXCEPT !.register = "none", !.orders = "block"]

\* showOrdersView, up to the fetch of loadOrders: the sections after it
DisplayAfterShowOrdersView == [register |-> "none", login |-> "none", orders |-> "block"]

\* the login handler resumes with the response to its POST
LoginResume(resp) ==
    /\ resp.kind = "POST login"
    /\ responses' = responses \ {resp}
    /\ LET me == Answered(inv[resp.inv], resp.status)
       IN  IF resp.status = "ok"
           THEN \* alert, then showOrdersView(companyName) up to the fetch of loadOrders
                /\ loggedInSupplierName' = me.name
                /\ display' = DisplayAfterShowOrdersView
                /\ ordersList' = Loading
                /\ inv' = [inv EXCEPT ![resp.inv] =
                             Sent([me EXCEPT !.alert = "Login successful!"],
                                  "GET /orders/supplier", "await")]
                /\ requests' = requests \cup {LoadOrdersRequest(resp.inv, me.name)}
                /\ last' = Idle
           ELSE /\ Return(resp.inv,
                          Returned(me, IF resp.status = "notok" THEN "Login Error"
                                       ELSE "An unexpected error occurred during login."))
                /\ UNCHANGED <<requests, supplierView>>
    /\ UNCHANGED <<orders, started, edits, ownerPage, productsList>>
    /\ UNCHANGED database

\* loadOrders resumes with its response, whichever handler called it
LoadOrdersResume(resp) ==
    /\ resp.kind = "GET /orders/supplier"
    /\ ordersList' = OrdersListAfter(resp)
    /\ Return(resp.inv, [Answered(inv[resp.inv], resp.status) EXCEPT !.pc = "done"])
    /\ responses' = responses \ {resp}
    /\ UNCHANGED <<orders, requests, started, edits, ownerPage, productsList, display,
                   loggedInSupplierName>>
    /\ UNCHANGED database

\* a click on the button of item k: approveOrder up to its return or its fetch
ApproveOrderClick(i, k, confirmed) ==
    /\ display.orders # "none"
    /\ UserAction(i)
    /\ k \in 1..Len(ordersList.rows)
    /\ ordersList.rows[k].button # <<>>
    /\ LET id == ordersList.rows[k].button[1]
           me == [Started("approveOrder", id, <<>>) EXCEPT !.read = <<confirmed>>]
       IN  IF ~confirmed
           THEN /\ Return(i, Returned(me, "none"))
                /\ UNCHANGED requests
           ELSE /\ inv' = [inv EXCEPT ![i] = Sent(me, "PUT approve", "await")]
                /\ requests' = requests \cup {Request(i, "PUT approve", id, <<>>, <<>>)}
                /\ last' = Idle
    /\ UNCHANGED <<orders, responses, ownerPage, supplierPage>>
    /\ UNCHANGED database

\* approveOrder resumes with the response to its PUT
ApproveOrderResume(resp) ==
    /\ resp.kind = "PUT approve"
    /\ responses' = responses \ {resp}
    /\ LET me == Answered(inv[resp.inv], resp.status)
           companyName == loggedInSupplierName
       IN  IF resp.status = "ok" /\ companyName # <<>>
           THEN /\ ordersList' = Loading
                /\ inv' = [inv EXCEPT ![resp.inv] =
                             Sent([me EXCEPT !.alert = "Order approved successfully!"],
                                  "GET /orders/supplier", "await")]
                /\ requests' = requests \cup {LoadOrdersRequest(resp.inv, companyName)}
                /\ last' = Idle
           ELSE /\ Return(resp.inv,
                          Returned(me, CASE resp.status = "ok" -> "Order approved successfully!"
                                         [] resp.status = "notok" -> "Error approving order"
                                         [] OTHER -> "An unexpected error occurred while approving the order."))
                /\ UNCHANGED <<requests, ordersList>>
    /\ UNCHANGED <<orders, started, edits, ownerPage, productsList, display, loggedInSupplierName>>
    /\ UNCHANGED database

\* ------------------------------------------------------------- the backend
\* Each request is answered once: ok with its effect, a non-ok status without it, or
\* no usable answer at all ("throw": fetch or response.json() rejects), in which case
\* the effect may or may not have happened.
Outcomes == {"ok", "notok", "throw"}

FreeId(os, n) == os[n].status = "None" /\ \A m \in 1..(n - 1) : os[m].status # "None"

BackendCreate(os, name) ==
    [n \in OrderIds |-> IF FreeId(os, n) THEN [status |-> "Pending", supplier_name |-> name]
                        ELSE os[n]]

BackendSetStatus(os, id, status) == [os EXCEPT ![id].status = status]

\* the orders after the request is carried out
Effect(os, req) ==
    CASE req.kind = "POST /orders/" -> BackendCreate(os, req.name)
      [] req.kind = "PUT complete"  -> BackendSetStatus(os, req.ref, "Completed")
      [] req.kind = "PUT approve"   -> BackendSetStatus(os, req.ref, "In Process")
      [] OTHER -> os

\* the backend can carry the request out
Possible(os, req) ==
    CASE req.kind = "POST /orders/" -> \E n \in OrderIds : os[n].status = "None"
      [] req.kind \in {"PUT complete", "PUT approve"} ->
            req.ref \in OrderIds /\ os[req.ref].status # "None"
      [] OTHER -> TRUE

Answer(req, status, os) ==
    Response(req, status,
             IF status # "ok" THEN <<>>
             ELSE IF req.kind = "GET /orders/" THEN AllOrders(os)
             ELSE IF req.kind = "GET /orders/supplier"
                  THEN OrdersOfSupplier(os, DecodeURIComponent(req.name))
             ELSE <<>>,
             IF status = "ok" /\ req.kind = "GET /suppliers" THEN Catalogue ELSE <<>>)

BackendAnswers(req, status, done) ==
    /\ req \in requests
    /\ status = "ok" => done
    /\ status = "notok" => ~done
    /\ done => Possible(orders, req)
    /\ orders' = IF done THEN Effect(orders, req) ELSE orders
    /\ requests' = requests \ {req}
    /\ responses' = responses \cup {Answer(req, status, orders')}
    /\ last' = Idle
    /\ UNCHANGED <<inv, started, edits, loaded, ownerForm, allOrdersList, supplierPage>>
    /\ UNCHANGED database

\* the supplier of an order approves it from another page
OtherSupplierApproves(id) ==
    /\ Possible(orders, Request(0, "PUT approve", id, <<>>, <<>>))
    /\ orders[id].status = "Pending"
    /\ orders' = BackendSetStatus(orders, id, "In Process")
    /\ last' = Idle
    /\ UNCHANGED <<requests, responses, inv, started, edits, loaded, ownerForm, allOrdersList, supplierPage>>
    /\ UNCHANGED database

\* ------------------------------------------------------------- the system
\* the orders the backend can hold when a page is opened
InitialOrders ==
    { os \in [OrderIds -> {NoOrder} \cup [status : Statuses, supplier_name : {<<"a">>, <<"b">>}]] :
        \A n \in OrderIds : os[n].status # "None" => \A m \in 1..(n - 1) : os[m].status # "None" }

\* the pages as their scripts leave them, before any event
PagesInitWith(rows) ==
    /\ requests = {}
    /\ responses = {}
    /\ inv = [i \in InvIds |-> Idle]
    /\ last = Idle
    /\ started = 0
    /\ edits = 0
    /\ loaded = FALSE
    /\ suppliersData = <<>>
    /\ supplierSelect = [options |-> <<>>, value |-> <<>>]
    /\ productsForOrder = <<>>
    /\ allOrdersList = [kind |-> "initial", rows |-> <<>>]
    /\ productsList = rows
    /\ display = [register |-> "", login |-> "", orders |-> "none"]
    /\ loggedInSupplierName = <<>>
    /\ ordersList = [kind |-> "initial", rows |-> <<>>]

PagesInit == PagesInitWith(<<EmptyEntry(FALSE)>>)

\* the SQL script is not part of the pages: no table, no statement to run
NoDatabase ==
    /\ People = <<>>
    /\ Family_Tree = <<>>
    /\ statement = "none"

NoOrders == [n \in OrderIds |-> NoOrder]

Init == orders \in InitialOrders /\ PagesInit /\ NoDatabase

NoOrdersInit == orders = NoOrders /\ PagesInit /\ NoDatabase

\* the registration form may or may not come with a first row
RegisterInit ==
    /\ orders = NoOrders
    /\ \E rows \in {<<>>, <<EmptyEntry(FALSE)>>} : PagesInitWith(rows)
    /\ NoDatabase

OwnerResume ==
    \E resp \in responses :
        \/ FetchSuppliersResume(resp)
        \/ LoadAllOrdersResume(resp)
        \/ SubmitNewOrderResume(resp)
        \/ MarkOrderCompleteResume(resp)

SupplierResume ==
    \E resp \in responses :
        \/ RegisterResume(resp)
        \/ LoginResume(resp)
        \/ LoadOrdersResume(resp)
        \/ ApproveOrderResume(resp)

Backend ==
    \E req \in requests, status \in Outcomes, done \in BOOLEAN : BackendAnswers(req, status, done)

\* what the model's users put into the forms
SupplierNames == {<<>>, <<"a">>, <<"b">>}

CompanyInputs == {<<>>, <<" ">>, <<"a">>, <<" ", "b", " ">>}

PhoneInputs == {<<>>, <<" ">>, <<"5">>}

ValidEntry == [name |-> <<"p">>, price |-> <<"2", ".", "5">>, minQty |-> <<"1">>]

EntryInputs ==
    { ValidEntry,
      [name |-> <<" ", "q">>, price |-> <<"0">>, minQty |-> <<"2", ".", "5">>],
      [name |-> <<" ">>, price |-> <<"1">>, minQty |-> <<"1">>],
      [name |-> <<"p">>, price |-> <<"-", "1">>, minQty |-> <<"1">>],
      [name |-> <<"p">>, price |-> <<>>, minQty |-> <<"1">>],
      [name |-> <<"p">>, price |-> <<"1">>, minQty |-> <<"0">>],
      [name |-> <<"p">>, price |-> <<"1">>, minQty |-> <<>>] }

\* ---- the owner page, with a supplier approving orders elsewhere
OwnerNext ==
    \/ \E i, j \in InvIds : DOMContentLoaded(i, j)
    \/ \E i \in InvIds : RefreshClick(i)
    \/ \E v \in SupplierNames : SupplierChange(v)
    \/ \E k \in 1..2 : CheckboxChange(k)
    \/ \E i \in InvIds : SubmitNewOrder(i)
    \/ \E i \in InvIds, k \in OrderIds, c \in BOOLEAN : MarkOrderCompleteClick(i, k, c)
    \/ OwnerResume
    \/ Backend
    \/ \E id \in OrderIds : OtherSupplierApproves(id)

OwnerSpec == Init /\ [][OwnerNext]_vars

\* ---- the new order form of the owner page
OrderFormNext ==
    \/ \E i, j \in InvIds : DOMContentLoaded(i, j)
    \/ \E v \in SupplierNames : SupplierChange(v)
    \/ \E k \in 1..2 : CheckboxChange(k)
    \/ \E k \in 1..2, q \in QtyInputs : QuantityInput(k, q)
    \/ \E i \in InvIds : SubmitNewOrder(i)
    \/ OwnerResume
    \/ Backend

OrderFormSpec == NoOrdersInit /\ [][OrderFormNext]_vars

\* ---- the registration form of the supplier page
RegisterNext ==
    \/ AddProductEntry
    \/ \E k \in 1..MaxEntries : RemoveProductEntry(k)
    \/ \E k \in 1..MaxEntries, e \in EntryInputs : ProductInput(k, e.name, e.price, e.minQty)
    \/ \E i \in InvIds, c \in {<<>>, <<"a">>}, p \in {<<"5">>} : RegisterSubmit(i, c, p)
    \/ SupplierResume
    \/ Backend

RegisterSpec == RegisterInit /\ [][RegisterNext]_vars

\* ---- login and the orders view of the supplier page
SupplierNext ==
    \/ \E i \in InvIds, c \in CompanyInputs, p \in PhoneInputs : LoginSubmit(i, c, p)
    \/ \E i \in InvIds, k \in OrderIds, c \in BOOLEAN : ApproveOrderClick(i, k, c)
    \/ SupplierResume
    \/ Backend

SupplierSpec == Init /\ [][SupplierNext]_vars

\* ---- both pages against one backend
Next ==
    \/ \E i, j \in InvIds : DOMContentLoaded(i, j)
    \/ \E i \in InvIds : RefreshClick(i)
    \/ \E v \in {<<"a">>} : SupplierChange(v)
    \/ \E k \in {1} : CheckboxChange(k)
    \/ \E i \in InvIds : SubmitNewOrder(i)
    \/ \E i \in InvIds, k \in OrderIds, c \in BOOLEAN : MarkOrderCompleteClick(i, k, c)
    \/ OwnerResume
    \/ \E e \in {ValidEntry} : ProductInput(1, e.name, e.price, e.minQty)
    \/ \E i \in InvIds, c \in {<<"a">>}, p \in {<<"5">>} : RegisterSubmit(i, c, p)
    \/ \E i \in InvIds, c \in {<<"a">>}, p \in {<<>>, <<"5">>} : LoginSubmit(i, c, p)
    \/ \E i \in InvIds, k \in OrderIds, c \in BOOLEAN : ApproveOrderClick(i, k, c)
    \/ SupplierResume
    \/ Backend

Spec == Init /\ [][Next]_vars

\* ------------------------------------------------------------ the SQL script
NULL == 0

PersonIds == 1..MaxPersons

Genders == {"M", "F"}

\* a = b in SQL: not true when either side is NULL
SqlEq(a, b) == a # NULL /\ b # NULL /\ a = b

\* the Father_Id (Gender "M") or Mother_Id (Gender "F") columns a table can have when
\* the persons' genders are g: NULL or an earlier person of that gender
ParentColumns(g, gender) ==
    { c \in [PersonIds -> {NULL} \cup PersonIds] :
        \A p \in PersonIds : c[p] # NULL => c[p] < p /\ g[c[p]] = gender }

\* the Spouse_Id columns: NULL or another person
SpouseColumns == { c \in [PersonIds -> {NULL} \cup PersonIds] : \A p \in PersonIds : c[p] # p }

\* the People table with these columns
PeopleTable(g, f, m, s) ==
    [p \in PersonIds |-> [Gender |-> g[p], Father_Id |-> f[p], Mother_Id |-> m[p],
                          Spouse_Id |-> s[p]]]

\* the rows of People in key order, and the rows of People p1 JOIN People p2
IdSeq == [k \in 1..MaxPersons |-> k]

PairSeq ==
    [k \in 1..(MaxPersons * MaxPersons) |->
        << ((k - 1) \div MaxPersons) + 1, ((k - 1) % MaxPersons) + 1 >>]

Row(person, relative, type) ==
    [Person_Id |-> person, Relative_Id |-> relative, Connection_Type |-> type]

\* SELECT Person_Id, Father_Id, 'father' ... WHERE Father_Id IS NOT NULL
FatherRows(P) ==
    LET Has(p) == P[p].Father_Id # NULL
        sel == SelectSeq(IdSeq, Has)
    IN  [k \in 1..Len(sel) |-> Row(sel[k], P[sel[k]].Father_Id, "father")]

\* SELECT Person_Id, Mother_Id, 'mother' ... WHERE Mother_Id IS NOT NULL
MotherRows(P) ==
    LET Has(p) == P[p].Mother_Id # NULL
        sel == SelectSeq(IdSeq, Has)
    IN  [k \in 1..Len(sel) |-> Row(sel[k], P[sel[k]].Mother_Id, "mother")]

\* the sibling SELECT: p1 has both parents and shares one with p2; the CASE looks at
\* p1.Gender
SiblingRows(P) ==
    LET On(pr) ==
            /\ \/ SqlEq(P[pr[1]].Father_Id, P[pr[2]].Father_Id)
               \/ SqlEq(P[pr[1]].Mother_Id, P[pr[2]].Mother_Id)
            /\ pr[1] # pr[2]
            /\ P[pr[1]].Father_Id # NULL
            /\ P[pr[1]].Mother_Id # NULL
        sel == SelectSeq(PairSeq, On)
    IN  [k \in 1..Len(sel) |->
            Row(sel[k][1], sel[k][2],
                IF P[sel[k][1]].Gender = "M" THEN "brother" ELSE "sister")]

\* SELECT Father_Id, Person_Id, CASE WHEN Gender = 'M' THEN 'son' ELSE 'daughter' END
ChildrenOfFatherRows(P) ==
    LET Has(p) == P[p].Father_Id # NULL
        sel == SelectSeq(IdSeq, Has)
    IN  [k \in 1..Len(sel) |->
            Row(P[sel[k]].Father_Id, sel[k],
                IF P[sel[k]].Gender = "M" THEN "son" ELSE "daughter")]

\* SELECT Mother_Id, Person_Id, CASE WHEN Gender = 'M' THEN 'son' ELSE 'daughter' END
ChildrenOfMotherRows(P) ==
    LET Has(p) == P[p].Mother_Id # NULL
        sel == SelectSeq(IdSeq, Has)
    IN  [k \in 1..Len(sel) |->
            Row(P[sel[k]].Mother_Id, sel[k],
                IF P[sel[k]].Gender = "M" THEN "son" ELSE "daughter")]

\* SELECT Person_Id, Spouse_Id, CASE WHEN Gender = 'M' THEN 'wife' ELSE 'husband' END
SpouseRows(P) ==
    LET Has(p) == P[p].Spouse_Id # NULL
        sel == SelectSeq(IdSeq, Has)
    IN  [k \in 1..Len(sel) |->
            Row(sel[k], P[sel[k]].Spouse_Id,
                IF P[sel[k]].Gender = "M" THEN "wife" ELSE "husband")]

\* the UNION ALL of the six SELECTs
Ex1Select(P) ==
    FatherRows(P) \o MotherRows(P) \o SiblingRows(P) \o ChildrenOfFatherRows(P)
        \o ChildrenOfMotherRows(P) \o SpouseRows(P)

\* PRIMARY KEY (Person_Id, Relative_Id)
PrimaryKeyHolds(rows) ==
    \A j, k \in 1..Len(rows) :
        j # k => <<rows[j].Person_Id, rows[j].Relative_Id>> # <<rows[k].Person_Id, rows[k].Relative_Id>>

\* Ex1: INSERT INTO Family_Tree ... ; a duplicate key fails the whole statement, after
\* which the script goes on or stops, as its runner is set
Ex1 ==
    /\ statement = "Ex1"
    /\ LET rows == Ex1Select(People)
       IN  IF PrimaryKeyHolds(rows)
           THEN Family_Tree' = rows /\ statement' = "Ex2"
           ELSE Family_Tree' = Family_Tree /\ statement' \in {"Ex2", "stopped"}
    /\ UNCHANGED <<People, pages>>

\* the persons whose Spouse_Id is p
SpouseOf(P, p) == { q \in PersonIds : P[q].Spouse_Id = p }

\* Ex2: UPDATE People SET Spouse_Id = (SELECT ...) WHERE Spouse_Id IS NULL AND EXISTS (...);
\* where the subquery has several rows the statement fails or takes one of them, as
\* the database in use does
Ex2 ==
    /\ statement = "Ex2"
    /\ LET updated == { p \in PersonIds : People[p].Spouse_Id = NULL /\ SpouseOf(People, p) # {} }
       IN  \/ \E c \in [updated -> PersonIds] :
                 /\ \A p \in updated : c[p] \in SpouseOf(People, p)
                 /\ People' = [p \in PersonIds |->
                                 IF p \in updated THEN [People[p] EXCEPT !.Spouse_Id = c[p]]
                                 ELSE People[p]]
           \/ /\ \E p \in updated : Cardinality(SpouseOf(People, p)) > 1
              /\ People' = People
    /\ statement' = "done"
    /\ UNCHANGED <<Family_Tree, pages>>

\* the tables after the CREATE TABLE statements, for any content of People in which
\* every Father_Id is male and every Mother_Id female
FamilyInit ==
    /\ orders = NoOrders
    /\ PagesInit
    /\ \E g \in [PersonIds -> Genders] :
          \E f \in ParentColumns(g, "M"), m \in ParentColumns(g, "F"), s \in SpouseColumns :
              People = PeopleTable(g, f, m, s)
    /\ Family_Tree = <<>>
    /\ statement = "Ex1"

FamilyNext ==
    \/ Ex1
    \/ Ex2

FamilySpec == FamilyInit /\ [][FamilyNext]_vars

\* ------------------------------------------------------------------ claims
\* requests of the invocation in slot i that are sent and not yet answered to it
Outstanding(i) ==
    Cardinality({r \in requests : r.inv = i}) + Cardinality({r \in responses : r.inv = i})

PendingEntries(rec) ==
    Cardinality({k \in 1..Len(rec.log) : rec.log[k].outcome = "pending"})

TwoRequestHandlers == {"submitNewOrder", "markOrderComplete", "login", "approveOrder"}

\* C1: a handler invocation never has more than one request outstanding, and when it
\* has sent a second request (the reload of the list) the answer to its first one had
\* already been received.
C1_OneOutstandingRequest ==
    \A i \in InvIds :
        /\ Outstanding(i) <= 1
        /\ \A k \in 1..(Len(inv[i].log) - 1) : inv[i].log[k].outcome # "pending"

\* a handler is waiting for its reload, its first request answered ok
C1_Witness ==
    \E i \in InvIds :
        /\ inv[i].handler \in TwoRequestHandlers
        /\ Len(inv[i].log) = 2
        /\ inv[i].log[1].outcome = "ok"
        /\ Outstanding(i) = 1

\* the invocations whose requests are on record: the suspended ones and the one
\* that returned in the latest step
Records == {inv[i] : i \in InvIds} \cup {last}

\* C2: no request is retried: an invocation sends each kind of request at most once,
\* only its last request can have failed, and an invocation whose request failed has
\* returned with nothing outstanding.
C2_NoRetry ==
    /\ \A rec \in Records :
        /\ \A j, k \in 1..Len(rec.log) : j # k => rec.log[j].kind # rec.log[k].kind
        /\ \A k \in 1..(Len(rec.log) - 1) : rec.log[k].outcome = "ok"
        /\ (rec.log # <<>> /\ rec.log[Len(rec.log)].outcome \in {"notok", "throw"})
              => rec.pc = "done"
    /\ \A i \in InvIds : Outstanding(i) = PendingEntries(inv[i])
    /\ PendingEntries(last) = 0

\* a reload failed after the request before it succeeded, and the handler returned
C2_Witness ==
    /\ last.handler \in TwoRequestHandlers
    /\ Len(last.log) = 2
    /\ last.log[2].outcome \in {"notok", "throw"}
    /\ \A r \in requests \cup responses : inv[r.inv].seq # last.seq

\* the invocations on record after a step
RecordsNext == {inv'[i] : i \in InvIds} \cup {last'}

\* rec is the invocation of handler h that the user started in this step
NewlyStarted(rec, h) ==
    /\ started' = started + 1
    /\ rec \in RecordsNext
    /\ rec.seq = started'
    /\ rec.handler = h

\* the responses delivered to their handlers in this step
Delivered(kind) == {resp \in responses : resp \notin responses' /\ resp.kind = kind}

\* list shows what response resp carries: one row per order, in order, with its id
\* and status, or the error message
DisplayShows(list, resp, kind) ==
    IF resp.status # "ok" THEN list.kind = "error" /\ list.rows = <<>>
    ELSE /\ list.kind = (IF resp.orders = <<>> THEN "empty" ELSE kind)
         /\ Len(list.rows) = Len(resp.orders)
         /\ \A k \in 1..Len(resp.orders) :
               /\ list.rows[k].order_reference_id = resp.orders[k].order_reference_id
               /\ list.rows[k].status = resp.orders[k].status

\* C4: overlapping loads of the orders list are neither de-duplicated, cancelled nor
\* ordered: a refresh always sends a new request and withdraws none, and every
\* answer that arrives replaces the list on display, whatever was issued after it, so
\* the answer that arrives last is the one displayed.
C4_OverlappingRefreshes ==
    [][ /\ \A i \in InvIds :
              (inv[i].pc = "idle" /\ NewlyStarted(inv'[i], "loadAllOrders"))
                  => /\ Request(i, "GET /orders/", 0, <<>>, <<>>) \notin requests
                     /\ requests' = requests \cup {Request(i, "GET /orders/", 0, <<>>, <<>>)}
                     /\ responses' = responses
        /\ \A resp \in Delivered("GET /orders/") :
              /\ DisplayShows(allOrdersList', resp, "table")
              /\ responses' = responses \ {resp}
              /\ requests' = requests
      ]_vars

\* the refresh issued later has just returned while the answer to the refresh issued
\* before it is still on its way, with an order list other than the one on display
C4_Witness ==
    \E resp \in responses :
        /\ resp.kind = "GET /orders/" /\ resp.status = "ok"
        /\ inv[resp.inv].handler = "loadAllOrders"
        /\ inv[resp.inv].seq >= 1
        /\ last.handler = "loadAllOrders"
        /\ last.seq > inv[resp.inv].seq
        /\ allOrdersList.kind = "table"
        /\ ~DisplayShows(allOrdersList, resp, "table")

\* C5: after loadAllOrders renders a response the rows are those of the response, a
\* row carries the complete button exactly when its status is 'In Process', and a
\* complete request is only sent for an order that the list on display shows as
\* 'In Process'.
C5_CompleteButton ==
    [][ /\ \A resp \in Delivered("GET /orders/") : DisplayShows(allOrdersList', resp, "table")
        /\ \A k \in 1..Len(allOrdersList'.rows) :
              LET row == allOrdersList'.rows[k]
              IN  /\ row.button # <<>> <=> row.status = "In Process"
                  /\ row.button # <<>> => row.button = <<row.order_reference_id>>
        /\ \A r \in requests' \ requests :
              r.kind = "PUT complete"
                  => \E k \in 1..Len(allOrdersList.rows) :
                        /\ allOrdersList.rows[k].order_reference_id = r.ref
                        /\ allOrdersList.rows[k].status = "In Process"
      ]_vars

\* a complete request is on its way for an order the table shows as 'In Process'
C5_Witness ==
    \E r \in requests :
        /\ r.kind = "PUT complete"
        /\ \E k \in 1..Len(allOrdersList.rows) :
              /\ allOrdersList.rows[k].order_reference_id = r.ref
              /\ allOrdersList.rows[k].status = "In Process"
              /\ allOrdersList.rows[k].button = <<r.ref>>

\* C6: after loadOrders renders a response the items are those of the response, an
\* item carries the approve button exactly when its status is 'Pending', and an
\* approve request is only sent for an order that the list on display shows as
\* 'Pending'.
C6_ApproveButton ==
    [][ /\ \A resp \in Delivered("GET /orders/supplier") :
              DisplayShows(ordersList', resp, "list")
        /\ \A k \in 1..Len(ordersList'.rows) :
              LET row == ordersList'.rows[k]
              IN  /\ row.button # <<>> <=> row.status = "Pending"
                  /\ row.button # <<>> => row.button = <<row.order_reference_id>>
        /\ \A r \in requests' \ requests :
              r.kind = "PUT approve"
                  => \E k \in 1..Len(ordersList.rows) :
                        /\ ordersList.rows[k].order_reference_id = r.ref
                        /\ ordersList.rows[k].status = "Pending"
      ]_vars

\* an approve request is on its way for an order the list shows as 'Pending'
C6_Witness ==
    \E r \in requests :
        /\ r.kind = "PUT approve"
        /\ \E k \in 1..Len(ordersList.rows) :
              /\ ordersList.rows[k].order_reference_id = r.ref
              /\ ordersList.rows[k].status = "Pending"
              /\ ordersList.rows[k].button = <<r.ref>>

\* the quantity submitNewOrder reads from row k is greater than 0
QuantityPositive(rows, k) == rows[k].checked /\ Gt(ParseInt(rows[k].qty), 0)

\* the positions of the checked rows with a quantity greater than 0, in row order
RECURSIVE PositiveRows(_, _)
PositiveRows(rows, k) ==
    IF k > Len(rows) THEN <<>>
    ELSE (IF QuantityPositive(rows, k) THEN <<k>> ELSE <<>>) \o PositiveRows(rows, k + 1)

\* C7: a submit of the order form sends POST /orders/ only when a supplier is selected
\* and some checked product has a quantity greater than 0, and otherwise returns with
\* an alert and sends nothing; what it sends carries the selected supplier's name and
\* one item for each checked product with a quantity greater than 0, and no other.
C7_SubmitValidation ==
    [][ \A rec \in RecordsNext :
          NewlyStarted(rec, "submitNewOrder") =>
              LET rows == productsForOrder
                  pos  == PositiveRows(rows, 1)
              IN  IF supplierSelect.value # <<>> /\ pos # <<>>
                  THEN /\ rec.pc = "await"
                       /\ \E r \in requests' \ requests :
                             /\ requests' = requests \cup {r}
                             /\ r.kind = "POST /orders/"
                             /\ r.name = supplierSelect.value
                             /\ Len(r.items) = Len(pos)
                             /\ \A n \in 1..Len(pos) :
                                   /\ r.items[n].product_name = rows[pos[n]].product_name
                                   /\ r.items[n].quantity = ParseInt(rows[pos[n]].qty).v
                                   /\ r.items[n].quantity > 0
                  ELSE /\ requests' = requests
                       /\ rec.pc = "done"
                       /\ rec.alert # "none"
                       /\ rec = last'
      ]_vars

\* an order is on its way with one item although two products are checked: the
\* other's quantity is not greater than 0
C7_Witness ==
    \E r \in requests :
        /\ r.kind = "POST /orders/"
        /\ r.name = supplierSelect.value
        /\ Len(r.items) = 1
        /\ Len(productsForOrder) = 2
        /\ \A k \in 1..2 : productsForOrder[k].checked
        /\ Len(PositiveRows(productsForOrder, 1)) = 1

\* the register handler's reading of one row is a product: a name that is not empty
\* once trimmed, a price that is a number >= 0, a minimum quantity that is an integer >= 1
EntryIsProduct(e) ==
    /\ Trim(e.name) # <<>>
    /\ ~ParseFloat(e.price).nan /\ ParseFloat(e.price).v >= 0
    /\ ~ParseInt(e.minQty).nan /\ ParseInt(e.minQty).v >= 1

C9_LoginGuard ==
    [][ /\ \A rec \in RecordsNext :
              NewlyStarted(rec, "login") =>
                  LET companyName == Trim(rec.read[1])
                      phone       == Trim(rec.read[2])
                  IN  IF companyName = <<>> \/ phone = <<>>
                      THEN requests' = requests /\ rec.pc = "done" /\ rec.alert # "none"
                      ELSE \E r \in requests' \ requests :
                              /\ requests' = requests \cup {r}
                              /\ r.kind = "POST login"
                              /\ r.name = companyName /\ r.phone = phone
        /\ (display' # display \/ loggedInSupplierName' # loggedInSupplierName)
              => \E resp \in Delivered("POST login") : resp.status = "ok"
        /\ \A resp \in Delivered("POST login") :
              IF resp.status = "ok"
              THEN /\ display'.orders = "block"
                   /\ \E r \in requests' \ requests :
                         /\ r.kind = "GET /orders/supplier"
                         /\ DecodeURIComponent(r.name) = Trim(inv[resp.inv].read[1])
              ELSE /\ supplierView' = supplierView
                   /\ requests' = requests
                   /\ last'.handler = "login" /\ last'.alert # "none"
      ]_vars

\* a login with a company name of blanks only has just been turned down, nothing sent
C9_Witness ==
    /\ last.handler = "login"
    /\ last.read = << <<" ">>, <<"5">> >>
    /\ last.log = <<>>
    /\ last.alert = "Please enter both Company Name and Phone Number."
    /\ requests = {} /\ responses = {}

\* C10: the orders section is hidden at load; it becomes visible only in a step that
\* delivers an ok login response; whenever it is visible the login and register
\* sections are hidden and a supplier name is displayed, which is only ever set to the
\* company name of the login whose ok response is being delivered; once visible the
\* section is never hidden again.
C10_OrdersViewAfterLogin ==
    /\ display.orders = "none"
    /\ [](display.orders # "none"
             => /\ display.login = "none" /\ display.register = "none"
                /\ loggedInSupplierName # <<>>)
    /\ [][ /\ (display.orders = "none" /\ display'.orders # "none")
                 => \E resp \in Delivered("POST login") : resp.status = "ok"
           /\ display.orders # "none" => display'.orders # "none"
           /\ (display'.orders # "none" /\ loggedInSupplierName' # loggedInSupplierName)
                 => \E resp \in Delivered("POST login") :
                       /\ resp.status = "ok"
                       /\ loggedInSupplierName' = Trim(inv[resp.inv].read[1])
         ]_vars

\* the orders view is shown for the company of a login typed with blanks around it
C10_Witness ==
    /\ display = [register |-> "none", login |-> "none", orders |-> "block"]
    /\ loggedInSupplierName = <<"b">>
    /\ \E i \in InvIds : inv[i].handler = "login" /\ inv[i].read[1] = <<" ", "b", " ">>

\* C11: a click on a complete or an approve button whose confirmation dialog the user
\* declines sends no request and changes nothing: the handler returns at once without
\* an alert, and the requests and responses in flight, the suspended handlers, the
\* lists on display and every other piece of the state of both pages are as before.
C11_DeclinedConfirmation ==
    [][ \A rec \in RecordsNext :
          \A h \in {"markOrderComplete", "approveOrder"} :
              (NewlyStarted(rec, h) /\ rec.read = <<FALSE>>)
                  => /\ requests' = requests
                     /\ responses' = responses
                     /\ orders' = orders
                     /\ ownerPage' = ownerPage
                     /\ supplierPage' = supplierPage
                     /\ inv' = inv
                     /\ rec = last'
                     /\ rec.pc = "done" /\ rec.log = <<>> /\ rec.alert = "none"
      ]_vars

\* the user has just declined to approve an order that the list shows as 'Pending'
C11_Witness ==
    /\ last.handler = "approveOrder"
    /\ last.read = <<FALSE>>
    /\ last.pc = "done"
    /\ \E k \in 1..Len(ordersList.rows) : ordersList.rows[k].button = <<last.ref>>

Mutations == {"POST /orders/", "PUT complete", "PUT approve"}

Reloads == {"GET /orders/", "GET /orders/supplier"}

MaleTypes == {"father", "brother", "son", "husband"}

FemaleTypes == {"mother", "sister", "daughter", "wife"}

\* C13: in every row of Family_Tree the Connection_Type names what the relative is to
\* the person, so a male type stands only with a male Relative_Id and a female type
\* only with a female one.
C13_ConnectionTypeMatchesRelative ==
    \A k \in 1..Len(Family_Tree) :
        LET row == Family_Tree[k]
        IN  /\ row.Connection_Type \in MaleTypes => People[row.Relative_Id].Gender = "M"
            /\ row.Connection_Type \in FemaleTypes => People[row.Relative_Id].Gender = "F"

====
